---- MODULE Spec2Model ----
(***************************************************************************)
(* Model of the Poisson grid image pipeline (src/src/pipeline_logic.py).   *)
(*                                                                         *)
(* One behaviour is a sequence of container invocations of                 *)
(* pipeline_logic.py against one S3 store.  Every invocation is a fresh    *)
(* process: it reads TASK_NAME, RUN_ID, S3_DATA_BUCKET and                 *)
(* OUTPUT_S3_BUCKET from its environment, runs the stage TASK_NAME names   *)
(* and exits.  The store is the only state that survives an invocation.    *)
(*                                                                         *)
(* An environment variable is a sequence: <<>> when unset (Python None),   *)
(* <<s>> when set to the string s.                                         *)
(* A normalized grid value is a float64 quotient k/d, kept as the reduced  *)
(* fraction <<k, d>>; <<0, 0>> is NaN, the result of 0/0.                  *)
(* The GRID_SIZE x GRID_SIZE array is represented by its first Cells       *)
(* cells in row-major order; its shape stays (GRID_SIZE, GRID_SIZE).       *)
(*                                                                         *)
(* dag is one run of the DAG poisson_grid_image_generator (src/src/main.py):*)
(* the state and the number of tries of each of its five task instances.   *)
(***************************************************************************)
EXTENDS Integers, Sequences, FiniteSets, TLC

VARIABLES store, last, config, dag

vars == <<store, last, config, dag>>

\* ---------------------------------------------------------------- bounds
\* Number of grid cells the model keeps.
Cells == 3
\* Largest value a Poisson sample takes in the model.
MaxRaw == 2

\* ------------------------------------------------------ program constants
GRID_SIZE == 2048
POISSON_LAMBDA == "3.0"
JpegQuality == 95
\* default_args['retries'] of the DAG
Retries == 2

None == <<>>
Some(s) == <<s>>

\* f"{x}" of an environment value: None formats as the text None.
Str(x) == IF x = None THEN "None" ELSE x[1]

StageNames == {"generate_poisson_grid", "create_jpeg_image", "upload_image_to_s3"}

\* ------------------------------------------------------------ inputs
DataBucket == "pipelines-data-flow"
OtherBucket == "published-images"

\* RUN_ID values the driver supplies.
RunIds == {Some("r1"), Some("r2")}
\* RUN_ID unset, beside a run whose id is the text None.
UnsetOrNone == {None, Some("None")}

\* TASK_NAME values that name no stage.
OtherTaskNames == {None, Some("render")}

RawGrids == [1..Cells -> 0..MaxRaw]
\* Samples of the two values 0 and MaxRaw in which only the first two cells
\* vary: the two grids <<0, MaxRaw, 0, ..>> and <<MaxRaw, 0, MaxRaw, ..>>.
TwoCellGrids ==
    {g \in RawGrids : /\ {g[1], g[2]} = {0, MaxRaw}
                      /\ \A i \in 3..Cells : g[i] = g[1]}

\* Samples in non-decreasing order: one grid for every multiset of values.
\* Minimum, maximum and the cell-by-cell mapping do not depend on the order.
SortedGrids == {g \in RawGrids : \A i \in 1..(Cells - 1) : g[i] <= g[i + 1]}

\* Which store request of an invocation fails, if any.
IOs == {[get_ok |-> TRUE, put_ok |-> TRUE],
        [get_ok |-> FALSE, put_ok |-> TRUE],
        [get_ok |-> TRUE, put_ok |-> FALSE]}

\* Results the float64 -> uint8 cast of NaN may give (undefined in C).
UndefinedCast == {0, 255}

NoGrid == <<>>

\* ------------------------------------------------------------ arithmetic
RECURSIVE Gcd(_, _)
Gcd(a, b) == IF b = 0 THEN a ELSE Gcd(b, a % b)

\* float64 k / d for integers 0 <= k <= d: NaN for 0/0, else the quotient.
TrueDivide(k, d) ==
    IF d = 0 THEN <<0, 0>>
    ELSE LET g == Gcd(k, d) IN <<k \div g, d \div g>>

IsNaN(v) == v[2] = 0

GridMin(grid) == CHOOSE m \in {grid[i] : i \in DOMAIN grid} :
                    \A i \in DOMAIN grid : m <= grid[i]
GridMax(grid) == CHOOSE m \in {grid[i] : i \in DOMAIN grid} :
                    \A i \in DOMAIN grid : m >= grid[i]

\* (grid - grid_min) / (grid_max - grid_min)
Normalize(grid) ==
    [i \in DOMAIN grid |->
        TrueDivide(grid[i] - GridMin(grid), GridMax(grid) - GridMin(grid))]

\* Mutant: the product is rounded to the nearest integer before the cast.
AsUint8_round(v, cast) ==
    IF IsNaN(v) THEN cast
    ELSE ((2 * 255 * v[1] + v[2]) \div (2 * v[2])) % 256

\* (v * 255).astype(np.uint8): truncation toward zero into 8 bits; the cast
\* of NaN is undefined and yields `cast`.
AsUint8(v, cast) ==
    IF IsNaN(v) THEN cast
    ELSE ((255 * v[1]) \div v[2]) % 256

\* ------------------------------------------------------------ encodings
NpSave(arr) == [fmt |-> "npy", shape |-> <<GRID_SIZE, GRID_SIZE>>, data |-> arr]
NpLoad(bytes) == bytes.data

JpegEncode(pixel_values, shape) ==
    [fmt |-> "JPEG", mode |-> "L", quality |-> JpegQuality,
     size |-> <<shape[2], shape[1]>>, px |-> pixel_values]

\* ------------------------------------------------------------ keys
\* Mutant: the grid key leaves the run id out.
generate_s3_key_no_run(run_id) == "runs/generate_poisson_grid/grid.npy"

generate_s3_key(run_id) ==
    "runs/" \o Str(run_id) \o "/generate_poisson_grid/grid.npy"
\* Mutant: the renderer reads the grid of run r1 whatever its run id.
create_s3_key_first_run(run_id) == "runs/r1/generate_poisson_grid/grid.npy"

create_s3_key(run_id) ==
    "runs/" \o Str(run_id) \o "/generate_poisson_grid/grid.npy"
\* Mutant: the renderer writes its output onto the grid key.
jpeg_s3_key_grid(run_id) ==
    "runs/" \o Str(run_id) \o "/generate_poisson_grid/grid.npy"

jpeg_s3_key(run_id) ==
    "runs/" \o Str(run_id) \o "/create_jpeg_image/poisson_grid.jpg"
\* Mutant: the publisher reads the grid artifact instead of the image.
temp_s3_key_grid(run_id) ==
    "runs/" \o Str(run_id) \o "/generate_poisson_grid/grid.npy"

\* Mutant: the publisher looks for a PNG the renderer never writes.
temp_s3_key_png(run_id) ==
    "runs/" \o Str(run_id) \o "/create_jpeg_image/poisson_grid.png"

temp_s3_key(run_id) ==
    "runs/" \o Str(run_id) \o "/create_jpeg_image/poisson_grid.jpg"
\* Mutant: the publisher writes the final object onto the image key.
final_s3_key_temp(run_id) ==
    "runs/" \o Str(run_id) \o "/create_jpeg_image/poisson_grid.jpg"

final_s3_key(run_id) ==
    "poisson-grid-images/" \o Str(run_id) \o "/poisson_grid_"
        \o ToString(GRID_SIZE) \o "x" \o ToString(GRID_SIZE) \o ".jpg"

\* Mutant: OUTPUT_S3_BUCKET is ignored.
output_bucket_ignored(env) == env.S3_DATA_BUCKET

\* os.environ.get('OUTPUT_S3_BUCKET', s3_data_bucket)
output_bucket(env) ==
    IF env.OUTPUT_S3_BUCKET = None THEN env.S3_DATA_BUCKET
    ELSE env.OUTPUT_S3_BUCKET[1]

\* ------------------------------------------------------------ store
Present(st, Bucket, Key) == <<Bucket, Key>> \in DOMAIN st

\* Mutant: a write to an existing key goes to a versioned key instead of
\* replacing the object.
put_object_versioned(st, Bucket, Key, obj) ==
    LET K == IF <<Bucket, Key>> \in DOMAIN st THEN Key \o ".1" ELSE Key IN
    [p \in DOMAIN st \cup {<<Bucket, K>>} |->
        IF p = <<Bucket, K>> THEN obj ELSE st[p]]

\* s3_client.put_object: an unconditional write of one object.
put_object(st, Bucket, Key, obj) ==
    [p \in DOMAIN st \cup {<<Bucket, Key>>} |->
        IF p = <<Bucket, Key>> THEN obj ELSE st[p]]

\* Mutant: a missing key reads as an empty array instead of failing.
get_object_default(st, Bucket, Key, net_ok) ==
    IF ~net_ok THEN [err |-> "StoreIOError"]
    ELSE [err |-> "ok",
          obj |-> IF <<Bucket, Key>> \in DOMAIN st THEN st[<<Bucket, Key>>]
                  ELSE [Body |-> [fmt |-> "npy", shape |-> <<0, 0>>, data |-> <<>>],
                        ContentType |-> None, Metadata |-> None]]

\* s3_client.get_object: StoreIOError when the request fails, NoSuchKey for
\* an absent key, else the object.
get_object(st, Bucket, Key, net_ok) ==
    IF ~net_ok THEN [err |-> "StoreIOError"]
    ELSE IF ~Present(st, Bucket, Key) THEN [err |-> "NoSuchKey"]
    ELSE [err |-> "ok", obj |-> st[<<Bucket, Key>>]]

Op(kind, Bucket, Key, ok) ==
    [op |-> kind, Bucket |-> Bucket, Key |-> Key, ok |-> ok]

Outcome(st, ops, stdout, exit) ==
    [store |-> st, ops |-> ops, stdout |-> stdout, exit |-> exit]

\* ------------------------------------------------------------ stages
\* Mutant: the generator prints its metadata before it writes the object.
generate_poisson_grid_print_first(st, env, grid, io) ==
    LET s3_key == generate_s3_key(env.RUN_ID)
        obj == [Body |-> NpSave(Normalize(grid)),
                ContentType |-> None, Metadata |-> None]
        metadata == [grid_size |-> GRID_SIZE, lambda |-> POISSON_LAMBDA,
                     original_min |-> GridMin(grid), original_max |-> GridMax(grid),
                     s3_key |-> s3_key]
    IN  IF io.put_ok
        THEN Outcome(put_object(st, env.S3_DATA_BUCKET, s3_key, obj),
                     <<Op("put", env.S3_DATA_BUCKET, s3_key, TRUE)>>,
                     <<metadata>>, "ok")
        ELSE Outcome(st, <<Op("put", env.S3_DATA_BUCKET, s3_key, FALSE)>>,
                     <<metadata>>, "StoreIOError")

\* Mutant: the generator tries its write a second time when it failed.
generate_poisson_grid_retry(st, env, grid, io) ==
    LET s3_key == generate_s3_key(env.RUN_ID)
        obj == [Body |-> NpSave(Normalize(grid)),
                ContentType |-> None, Metadata |-> None]
        metadata == [grid_size |-> GRID_SIZE, lambda |-> POISSON_LAMBDA,
                     original_min |-> GridMin(grid), original_max |-> GridMax(grid),
                     s3_key |-> s3_key]
        put(ok) == Op("put", env.S3_DATA_BUCKET, s3_key, ok)
    IN  Outcome(put_object(st, env.S3_DATA_BUCKET, s3_key, obj),
                IF io.put_ok THEN <<put(TRUE)>> ELSE <<put(FALSE), put(TRUE)>>,
                <<metadata>>, "ok")

generate_poisson_grid(st, env, grid, io) ==
    LET grid_min == GridMin(grid)
        grid_max == GridMax(grid)
        normalized_grid == Normalize(grid)
        s3_key == generate_s3_key(env.RUN_ID)
        obj == [Body |-> NpSave(normalized_grid),
                ContentType |-> None, Metadata |-> None]
        metadata == [grid_size |-> GRID_SIZE, lambda |-> POISSON_LAMBDA,
                     original_min |-> grid_min, original_max |-> grid_max,
                     s3_key |-> s3_key]
    IN  IF io.put_ok
        THEN Outcome(put_object(st, env.S3_DATA_BUCKET, s3_key, obj),
                     <<Op("put", env.S3_DATA_BUCKET, s3_key, TRUE)>>,
                     <<metadata>>, "ok")
        ELSE Outcome(st, <<Op("put", env.S3_DATA_BUCKET, s3_key, FALSE)>>,
                     <<>>, "StoreIOError")

create_jpeg_image(st, env, io, cast) ==
    LET s3_key == create_s3_key(env.RUN_ID)
        response == get_object(st, env.S3_DATA_BUCKET, s3_key, io.get_ok)
        read(ok) == Op("get", env.S3_DATA_BUCKET, s3_key, ok)
    IN  IF response.err # "ok"
        THEN Outcome(st, <<read(FALSE)>>, <<>>, response.err)
        ELSE
        LET normalized_grid == NpLoad(response.obj.Body)
            shape == response.obj.Body.shape
            pixel_values == [i \in DOMAIN normalized_grid |->
                                AsUint8(normalized_grid[i], cast)]
            jpeg == JpegEncode(pixel_values, shape)
            jpeg_key == jpeg_s3_key(env.RUN_ID)
            obj == [Body |-> jpeg, ContentType |-> Some("image/jpeg"),
                    Metadata |-> None]
            metadata == [image_size |-> ToString(shape[2]) \o "x" \o ToString(shape[1]),
                         format |-> "JPEG", temporary_s3_key |-> jpeg_key]
        IN  IF io.put_ok
            THEN Outcome(put_object(st, env.S3_DATA_BUCKET, jpeg_key, obj),
                         <<read(TRUE), Op("put", env.S3_DATA_BUCKET, jpeg_key, TRUE)>>,
                         <<metadata>>, "ok")
            ELSE Outcome(st,
                         <<read(TRUE), Op("put", env.S3_DATA_BUCKET, jpeg_key, FALSE)>>,
                         <<>>, "StoreIOError")

\* Mutant: the publisher re-encodes the image at a lower quality.
image_data_reencoded(response) == [response.obj.Body EXCEPT !.quality = 75]

\* image_data = response['Body'].read(): the bytes as stored.
image_data(response) == response.obj.Body

upload_image_to_s3(st, env, io) ==
    LET temp_key == temp_s3_key(env.RUN_ID)
        response == get_object(st, env.S3_DATA_BUCKET, temp_key, io.get_ok)
        read(ok) == Op("get", env.S3_DATA_BUCKET, temp_key, ok)
    IN  IF response.err # "ok"
        THEN Outcome(st, <<read(FALSE)>>, <<>>, response.err)
        ELSE
        LET out == output_bucket(env)
            final_key == final_s3_key(env.RUN_ID)
            obj == [Body |-> image_data(response),
                    ContentType |-> Some("image/jpeg"),
                    Metadata |-> Some([grid_size |-> ToString(GRID_SIZE),
                                       lambda |-> POISSON_LAMBDA,
                                       run_id |-> env.RUN_ID])]
            result == [final_s3_uri |-> "s3://" \o out \o "/" \o final_key,
                       bucket |-> out, key |-> final_key,
                       size |-> ToString(GRID_SIZE) \o "x" \o ToString(GRID_SIZE)]
        IN  IF env.RUN_ID = None
            \* Metadata values must be strings: the client rejects the call.
            THEN Outcome(st, <<read(TRUE), Op("put", out, final_key, FALSE)>>,
                         <<>>, "ParamValidationError")
            ELSE IF io.put_ok
            THEN Outcome(put_object(st, out, final_key, obj),
                         <<read(TRUE), Op("put", out, final_key, TRUE)>>,
                         <<result>>, "ok")
            ELSE Outcome(st, <<read(TRUE), Op("put", out, final_key, FALSE)>>,
                         <<>>, "StoreIOError")

\* Mutant: the final branch takes every other TASK_NAME for the publisher.
Main_fallthrough(st, env, grid, io, cast) ==
    IF env.TASK_NAME = Some("generate_poisson_grid")
    THEN generate_poisson_grid(st, env, grid, io)
    ELSE IF env.TASK_NAME = Some("create_jpeg_image")
    THEN create_jpeg_image(st, env, io, cast)
    ELSE upload_image_to_s3(st, env, io)

\* The __main__ block: dispatch on TASK_NAME.
Main(st, env, grid, io, cast) ==
    IF env.TASK_NAME = Some("generate_poisson_grid")
    THEN generate_poisson_grid(st, env, grid, io)
    ELSE IF env.TASK_NAME = Some("create_jpeg_image")
    THEN create_jpeg_image(st, env, io, cast)
    ELSE IF env.TASK_NAME = Some("upload_image_to_s3")
    THEN upload_image_to_s3(st, env, io)
    ELSE Outcome(st, <<>>, <<>>, "ValueError")

\* ------------------------------------------------------------ actions
Env(TASK_NAME, RUN_ID) ==
    [TASK_NAME |-> TASK_NAME, RUN_ID |-> RUN_ID,
     S3_DATA_BUCKET |-> config.S3_DATA_BUCKET,
     OUTPUT_S3_BUCKET |-> config.OUTPUT_S3_BUCKET]

\* One container invocation, from process start to exit.
Invoke(env, grid, io, cast) ==
    LET r == Main(store, env, grid, io, cast) IN
    /\ store' = r.store
    /\ last' = [TASK_NAME |-> env.TASK_NAME, RUN_ID |-> env.RUN_ID,
                grid |-> grid, exit |-> r.exit, ops |-> r.ops,
                stdout |-> r.stdout,
                completed |-> (r.exit = "ok"),
                again |-> /\ last.exit = "ok"
                          /\ last.TASK_NAME = env.TASK_NAME
                          /\ last.RUN_ID = env.RUN_ID]
    /\ UNCHANGED config

Generate(Ids, Samples) ==
    \E RUN_ID \in Ids, grid \in Samples, put_ok \in BOOLEAN :
        /\ Invoke(Env(Some("generate_poisson_grid"), RUN_ID), grid,
                  [get_ok |-> TRUE, put_ok |-> put_ok], 0)
        /\ UNCHANGED dag

Create(Ids, Casts) ==
    \E RUN_ID \in Ids, io \in IOs, cast \in Casts :
        /\ Invoke(Env(Some("create_jpeg_image"), RUN_ID), NoGrid, io, cast)
        /\ UNCHANGED dag

Upload(Ids) ==
    \E RUN_ID \in Ids, io \in IOs :
        /\ Invoke(Env(Some("upload_image_to_s3"), RUN_ID), NoGrid, io, 0)
        /\ UNCHANGED dag

Unknown(Ids) ==
    \E RUN_ID \in Ids, TASK_NAME \in OtherTaskNames :
        /\ Invoke(Env(TASK_NAME, RUN_ID), NoGrid,
                  [get_ok |-> TRUE, put_ok |-> TRUE], 0)
        /\ UNCHANGED dag

\* ------------------------------------------------------------ the DAG
\* get_image >> ecr_auth >> generate_grid >> create_image >> upload_to_s3
Tasks == <<"get_image", "ecr_login", "generate_poisson_grid",
           "create_jpeg_image", "upload_image_to_s3">>
TaskIds == {Tasks[i] : i \in DOMAIN Tasks}
DockerTasks == {"generate_poisson_grid", "create_jpeg_image", "upload_image_to_s3"}
PythonTasks == {"get_image", "ecr_login"}

Position(t) == CHOOSE i \in DOMAIN Tasks : Tasks[i] = t
\* The tasks directly upstream of t in the chain.
Upstream(t) == IF Position(t) = 1 THEN {} ELSE {Tasks[Position(t) - 1]}

\* '{{ run_id }}' of the DAG run
DagRunId == Some("r1")

DagIdle == [state |-> [t \in TaskIds |-> "none"], tries |-> [t \in TaskIds |-> 0]]

\* Mutant: trigger rule all_done, a task runs once its upstream has ended.
UpstreamDone(t) ==
    \A u \in Upstream(t) : dag.state[u] \in {"success", "failed", "upstream_failed"}

\* Trigger rule all_success (the default): every upstream task succeeded.
UpstreamOk(t) == \A u \in Upstream(t) : dag.state[u] = "success"

\* The state a task instance takes when its try ends.
Ended(t, ok) ==
    IF ok THEN "success"
    ELSE IF dag.tries[t] <= Retries THEN "up_for_retry" ELSE "failed"

\* The scheduler starts a try of t.
DagStart(t) ==
    /\ dag.state[t] \in {"none", "up_for_retry"}
    /\ UpstreamOk(t)
    /\ dag' = [state |-> [dag.state EXCEPT ![t] = "running"],
               tries |-> [dag.tries EXCEPT ![t] = @ + 1]]
    /\ UNCHANGED <<store, last, config>>

\* A try of get_image or ecr_login ends: its AWS and Docker calls succeed
\* or raise.
DagEndPython(t) ==
    /\ t \in PythonTasks
    /\ dag.state[t] = "running"
    /\ \E ok \in BOOLEAN :
          dag' = [dag EXCEPT !.state[t] = Ended(t, ok)]
    /\ UNCHANGED <<store, last, config>>

\* A try of a DockerOperator task ends: the container ran pipeline_logic.py
\* with the task's environment; a failed container fails the try.
DagEndDocker(t) ==
    /\ t \in DockerTasks
    /\ dag.state[t] = "running"
    /\ \E grid \in (IF t = "generate_poisson_grid" THEN TwoCellGrids ELSE {NoGrid}),
          io \in IOs :
          /\ Invoke(Env(Some(t), DagRunId), grid, io, 0)
          /\ dag' = [dag EXCEPT !.state[t] = Ended(t, last'.exit = "ok")]

\* The scheduler gives up on a task whose upstream failed.
DagSkip(t) ==
    /\ dag.state[t] = "none"
    /\ \E u \in Upstream(t) : dag.state[u] \in {"failed", "upstream_failed"}
    /\ dag' = [dag EXCEPT !.state[t] = "upstream_failed"]
    /\ UNCHANGED <<store, last, config>>

NotStarted ==
    [TASK_NAME |-> None, RUN_ID |-> None, grid |-> NoGrid,
     exit |-> "none", ops |-> <<>>,
     stdout |-> <<>>, completed |-> FALSE, again |-> FALSE]

EmptyStore == [p \in {} |-> None]

Configs ==
    [S3_DATA_BUCKET : {DataBucket},
     OUTPUT_S3_BUCKET : {None, Some(OtherBucket)}]

Init ==
    /\ store = EmptyStore
    /\ last = NotStarted
    /\ config \in Configs
    /\ dag = DagIdle

\* Grids of two distinct values never hold NaN: the cast result is unused.
Next ==
    \/ Generate(RunIds, TwoCellGrids)
    \/ Create(RunIds, {0})
    \/ Upload(RunIds)
    \/ Unknown(RunIds)

Spec == Init /\ [][Next]_vars

\* Invocations whose environment lacks RUN_ID.
NextEnv ==
    \/ Generate(UnsetOrNone, TwoCellGrids)
    \/ Create(UnsetOrNone, {0})
    \/ Upload(UnsetOrNone)
    \/ Unknown(UnsetOrNone)

SpecEnv == Init /\ [][NextEnv]_vars

\* The renderer's arithmetic: one run, a sample of every multiset of values.
OneRun == {Some("r1")}

InitPx ==
    /\ store = EmptyStore
    /\ last = NotStarted
    /\ config = [S3_DATA_BUCKET |-> DataBucket, OUTPUT_S3_BUCKET |-> None]
    /\ dag = DagIdle

NextPx ==
    \/ Generate(OneRun, SortedGrids)
    \/ Create(OneRun, UndefinedCast)

SpecPx == InitPx /\ [][NextPx]_vars

\* One run of the DAG, with the environment its tasks pass to the container.
InitDag ==
    /\ store = EmptyStore
    /\ last = NotStarted
    /\ config = [S3_DATA_BUCKET |-> DataBucket,
                 OUTPUT_S3_BUCKET |-> Some(DataBucket)]
    /\ dag = DagIdle

NextDag ==
    \E t \in TaskIds :
        \/ DagStart(t)
        \/ DagEndPython(t)
        \/ DagEndDocker(t)
        \/ DagSkip(t)

SpecDag == InitDag /\ [][NextDag]_vars

\* ====================================================== properties
data_bucket == config.S3_DATA_BUCKET
out_bucket == output_bucket(config)

GridAt(run_id) == <<data_bucket, generate_s3_key(run_id)>>
ImageAt(run_id) == <<data_bucket, jpeg_s3_key(run_id)>>
FinalAt(run_id) == <<out_bucket, final_s3_key(run_id)>>

Ran(task) == last.TASK_NAME = Some(task)
Succeeded(task) == Ran(task) /\ last.exit = "ok"

\* The store locations the last invocation read or wrote.
Touched == {<<last.ops[i].Bucket, last.ops[i].Key>> : i \in DOMAIN last.ops}
Wrote == {<<last.ops[i].Bucket, last.ops[i].Key>> :
            i \in {j \in DOMAIN last.ops : last.ops[j].op = "put"}}

\* Every key some stage computes for a run id.
KeysOfRun(run_id) ==
    {generate_s3_key(run_id), create_s3_key(run_id), jpeg_s3_key(run_id),
     temp_s3_key(run_id), final_s3_key(run_id)}

\* Run ids, among them ones that embed separators and stage names.
RunIdUniverse ==
    RunIds \cup {Some("r"), Some("r11"), Some("r1/"), Some("runs/r1"),
                 Some("r1/generate_poisson_grid"),
                 Some("r1/create_jpeg_image/poisson_grid.jpg")}

IsGrid(obj) == obj.Body.fmt = "npy"

\* ---------------------------------------------------------------- C1
\* C1: a stage invoked for a run id reads and writes only keys of that run,
\* none of them a key of any other run id, and every stored object lies
\* under the keys of exactly one run id.
C1_CrossRunIsolation ==
    /\ \A r \in RunIds : last.RUN_ID = r =>
          \A t \in Touched :
              /\ t[2] \in KeysOfRun(r)
              /\ \A r2 \in RunIdUniverse \ {r} : t[2] \notin KeysOfRun(r2)
    /\ \A p \in DOMAIN store :
          Cardinality({r \in RunIdUniverse : p[2] \in KeysOfRun(r)}) = 1

\* Both runs have published: six objects, three per run.
C1_Witness ==
    /\ \A r \in RunIds : {GridAt(r), ImageAt(r), FinalAt(r)} \subseteq DOMAIN store
    /\ Succeeded("upload_image_to_s3")

\* ---------------------------------------------------------------- C2
\* C2: a renderer started while its run's grid key is absent, or a publisher
\* started while its run's image key is absent, fails, prints no record and
\* leaves the store as it found it.
C2_MissingUpstream ==
    [][(\/ /\ last'.TASK_NAME = Some("create_jpeg_image")
           /\ <<data_bucket, generate_s3_key(last'.RUN_ID)>> \notin DOMAIN store
        \/ /\ last'.TASK_NAME = Some("upload_image_to_s3")
           /\ <<data_bucket, jpeg_s3_key(last'.RUN_ID)>> \notin DOMAIN store)
       => /\ last'.exit \in {"NoSuchKey", "StoreIOError"}
          /\ \A i \in DOMAIN last'.ops : last'.ops[i].op # "put"
          /\ ~last'.completed
          /\ last'.stdout = <<>>
          /\ store' = store]_vars

\* The renderer failed for a run without a grid while another run has one.
C2_Witness ==
    /\ Ran("create_jpeg_image")
    /\ last.exit = "NoSuchKey"
    /\ GridAt(last.RUN_ID) \notin DOMAIN store
    /\ DOMAIN store # {}

\* ---------------------------------------------------------------- C3
FinalMatches(r) ==
    FinalAt(r) \in DOMAIN store =>
        /\ ImageAt(r) \in DOMAIN store
        /\ store[FinalAt(r)].Body = store[ImageAt(r)].Body

ImageUnchanged(r) ==
    /\ ImageAt(r) \in DOMAIN store <=> ImageAt(r) \in DOMAIN store'
    /\ ImageAt(r) \in DOMAIN store => store'[ImageAt(r)] = store[ImageAt(r)]

\* C3 as claimed: in every state a published object has the bytes now at
\* its run's intermediate image key.
C3_FinalAlwaysEqualsImage == \A r \in RunIds : FinalMatches(r)

\* C3 amended: a published object has the bytes of its run's intermediate
\* image after every successful publish, and keeps having them over every
\* step that leaves the intermediate image as it was.
C3_FinalEqualsImageUntilRerendered ==
    [][\A r \in RunIds :
          (/\ ImageUnchanged(r)
           /\ \/ FinalMatches(r)
              \/ /\ last'.TASK_NAME = Some("upload_image_to_s3")
                 /\ last'.RUN_ID = r
                 /\ last'.exit = "ok")
          => FinalMatches(r)']_vars

\* The renderer ran again after the publish and the two objects still agree.
C3_Witness ==
    /\ Succeeded("create_jpeg_image")
    /\ FinalAt(last.RUN_ID) \in DOMAIN store
    /\ FinalMatches(last.RUN_ID)

\* ---------------------------------------------------------------- C4
\* C4: right after a successful publish the final object holds exactly the
\* bytes of the run's intermediate image.
C4_PublishRoundTrip ==
    Succeeded("upload_image_to_s3") =>
        /\ {FinalAt(last.RUN_ID), ImageAt(last.RUN_ID)} \subseteq DOMAIN store
        /\ store[FinalAt(last.RUN_ID)].Body = store[ImageAt(last.RUN_ID)].Body

\* A publish into a bucket other than the intermediate one.
C4_Witness ==
    /\ Succeeded("upload_image_to_s3")
    /\ out_bucket # data_bucket

\* ---------------------------------------------------------------- C5
\* C5 as claimed: a stage started without RUN_ID aborts before any store
\* write; it attempts no put and does not exit successfully.
C5_NoWriteWithoutRunId ==
    (last.RUN_ID = None /\ last.TASK_NAME \in {Some(t) : t \in StageNames})
        => /\ last.exit # "ok"
           /\ Wrote = {}

\* ---------------------------------------------------------------- C6
\* C6: an invocation whose TASK_NAME names no stage (or is unset) ends in
\* ValueError with no store request made, the store unchanged, no record
\* printed and no completion logged.
C6_UnknownTaskFails ==
    [][last'.TASK_NAME \notin {Some(t) : t \in StageNames}
       => /\ last'.exit = "ValueError"
          /\ last'.ops = <<>>
          /\ last'.stdout = <<>>
          /\ ~last'.completed
          /\ store' = store]_vars

\* TASK_NAME unset, after the store has been written to.
C6_Witness ==
    /\ last.TASK_NAME = None
    /\ last.exit = "ValueError"
    /\ DOMAIN store # {}

\* ---------------------------------------------------------------- C7
HasNaN(arr) == \E i \in DOMAIN arr : IsNaN(arr[i])

\* C7 as claimed: no grid object in the store holds an undefined value.
C7_NoUndefinedStored ==
    \A p \in DOMAIN store : IsGrid(store[p]) => ~HasNaN(store[p].Body.data)

\* ---------------------------------------------------------------- C8
\* ROUND(n / d) to the nearest integer, for n >= 0 and d > 0.
RoundDiv(n, d) == (2 * n + d) \div (2 * d)

\* The renderer step that follows a successful generator of the same run
\* with a grid of at least two distinct values.
RendersFreshGrid ==
    /\ Succeeded("generate_poisson_grid")
    /\ GridMin(last.grid) < GridMax(last.grid)
    /\ last'.TASK_NAME = Some("create_jpeg_image")
    /\ last'.RUN_ID = last.RUN_ID
    /\ last'.exit = "ok"

PixelsOf(run_id) == store[ImageAt(run_id)].Body.px

\* C8 as claimed: every pixel is 255 * (x - min) / (max - min) rounded to the
\* nearest integer.
C8_PixelRounded ==
    [][RendersFreshGrid =>
        \A i \in DOMAIN last.grid :
            PixelsOf(last.RUN_ID)'[i] =
                RoundDiv(255 * (last.grid[i] - GridMin(last.grid)),
                         GridMax(last.grid) - GridMin(last.grid))]_vars

\* C8 amended: every pixel is 255 * (x - min) / (max - min) truncated to an
\* integer.
C8_PixelTruncated ==
    [][RendersFreshGrid =>
        /\ DOMAIN PixelsOf(last.RUN_ID)' = DOMAIN last.grid
        /\ \A i \in DOMAIN last.grid :
            /\ PixelsOf(last.RUN_ID)'[i] =
                (255 * (last.grid[i] - GridMin(last.grid)))
                    \div (GridMax(last.grid) - GridMin(last.grid))
            /\ PixelsOf(last.RUN_ID)'[i] \in 0..255]_vars

\* A rendered image with a pixel strictly between black and white.
C8_Witness ==
    /\ Succeeded("create_jpeg_image")
    /\ \E i \in DOMAIN PixelsOf(last.RUN_ID) :
          PixelsOf(last.RUN_ID)[i] \notin {0, 255}
    /\ ~HasNaN(store[GridAt(last.RUN_ID)].Body.data)

\* ---------------------------------------------------------------- C9
\* C9 as claimed: a grid object, once stored, stays as it is over every step.
C9_GridNeverChanges ==
    [][\A p \in DOMAIN store : IsGrid(store[p]) =>
          p \in DOMAIN store' /\ store'[p] = store[p]]_vars

\* C9 amended: a grid object is never deleted, and the only step that
\* changes it is a successful generator whose grid key is its key.
C9_GridChangedOnlyByGenerator ==
    [][\A p \in DOMAIN store : IsGrid(store[p]) =>
          /\ p \in DOMAIN store'
          /\ store'[p] # store[p] =>
                /\ last'.TASK_NAME = Some("generate_poisson_grid")
                /\ last'.exit = "ok"
                /\ p = <<data_bucket, generate_s3_key(last'.RUN_ID)>>]_vars

\* The generator succeeded twice in a row for one run, with rendered and
\* published objects already in the store.
C9_Witness ==
    /\ Succeeded("generate_poisson_grid")
    /\ last.again
    /\ \E p \in DOMAIN store : ~IsGrid(store[p])

\* ---------------------------------------------------------------- C10
\* C10: a successful publish of a run whose final object already holds the
\* bytes of its intermediate image leaves the whole store as it was.
C10_PublishIdempotent ==
    [][\A r \in RunIds :
          (/\ last'.TASK_NAME = Some("upload_image_to_s3")
           /\ last'.RUN_ID = r
           /\ last'.exit = "ok"
           /\ FinalAt(r) \in DOMAIN store
           /\ FinalMatches(r))
          => store' = store]_vars

\* The publisher succeeded twice in a row for one run.
C10_Witness ==
    /\ Succeeded("upload_image_to_s3")
    /\ last.again

ExpectedFinalBucket ==
    IF config.OUTPUT_S3_BUCKET = None THEN config.S3_DATA_BUCKET
    ELSE config.OUTPUT_S3_BUCKET[1]

ExpectedFinalKey(r) ==
    "poisson-grid-images/" \o r \o "/poisson_grid_2048x2048.jpg"

C12_FinalLocation ==
    \A r \in {"r1", "r2"} :
        (Succeeded("upload_image_to_s3") /\ last.RUN_ID = Some(r)) =>
            LET p == <<ExpectedFinalBucket, ExpectedFinalKey(r)>> IN
            /\ Wrote = {p}
            /\ p \in DOMAIN store
            /\ store[p].Metadata =
                  Some([grid_size |-> "2048", lambda |-> "3.0", run_id |-> Some(r)])
            /\ store[p].ContentType = Some("image/jpeg")
            /\ last.stdout[1].bucket = p[1]
            /\ last.stdout[1].key = p[2]
            /\ last.stdout[1].final_s3_uri = "s3://" \o p[1] \o "/" \o p[2]

\* A publish with OUTPUT_S3_BUCKET set, repeated after a new grid and image.
C12_Witness ==
    /\ Succeeded("upload_image_to_s3")
    /\ config.OUTPUT_S3_BUCKET = Some(OtherBucket)
    /\ last.RUN_ID = Some("r2")
    /\ <<OtherBucket, ExpectedFinalKey("r1")>> \in DOMAIN store

\* ---------------------------------------------------------------- C13
Started(t) == dag.tries[t] > 0

\* C13: a task of the DAG has been started only if the task before it in
\* the chain has succeeded, and then the object that task writes is in the
\* store; no task is tried more than 1 + Retries times.
C13_DriverOrdering ==
    /\ \A t \in TaskIds : Started(t) => UpstreamOk(t)
    /\ \A t \in TaskIds : dag.tries[t] <= Retries + 1
    /\ Started("create_jpeg_image") => GridAt(DagRunId) \in DOMAIN store
    /\ Started("upload_image_to_s3") => ImageAt(DagRunId) \in DOMAIN store
    /\ \A t \in TaskIds :
          dag.state[t] = "upstream_failed" => ~Started(t)

\* The publisher is running after the renderer needed all of its tries.
C13_Witness ==
    /\ dag.state["upload_image_to_s3"] = "running"
    /\ dag.tries["create_jpeg_image"] = Retries + 1
    /\ dag.tries["generate_poisson_grid"] > 1

\* ---------------------------------------------------------------- C14
\* The key named by the metadata record an invocation l printed.
NamedKey(l) ==
    IF l.TASK_NAME = Some("generate_poisson_grid") THEN l.stdout[1].s3_key
    ELSE IF l.TASK_NAME = Some("create_jpeg_image")
    THEN l.stdout[1].temporary_s3_key
    ELSE l.stdout[1].key

\* C14: in every invocation a write is the last store action; a metadata
\* record is printed only when that write succeeded, names the key written,
\* and the object is then in the store; an invocation that fails leaves the
\* whole store, hence its output key, unchanged and prints no record.
C14_FailureAtomicity ==
    [][LET ops == last'.ops
           n == Len(ops)
       IN  /\ \A i \in DOMAIN ops : ops[i].op = "put" => i = n
           /\ last'.stdout # <<>> =>
                 /\ n >= 1
                 /\ ops[n].op = "put"
                 /\ ops[n].ok
                 /\ ops[n].Key = NamedKey(last')
                 /\ <<ops[n].Bucket, ops[n].Key>> \in DOMAIN store'
                 /\ last'.exit = "ok"
           /\ last'.exit # "ok" =>
                 /\ store' = store
                 /\ last'.stdout = <<>>]_vars

\* A renderer's write failed while an image of an earlier rendering of the
\* run is in the store.
C14_Witness ==
    /\ Ran("create_jpeg_image")
    /\ last.exit = "StoreIOError"
    /\ Len(last.ops) = 2
    /\ ~last.ops[2].ok
    /\ <<last.ops[2].Bucket, last.ops[2].Key>> \in DOMAIN store

\* ---------------------------------------------------------------- C15
\* The location a stage of run r writes.
OutputOf(task, r) ==
    IF task = Some("generate_poisson_grid") THEN GridAt(r)
    ELSE IF task = Some("create_jpeg_image") THEN ImageAt(r)
    ELSE FinalAt(r)

\* Location q holds the same object, or is absent, before and after the step.
Kept(q) ==
    /\ (q \in DOMAIN store) = (q \in DOMAIN store')
    /\ q \in DOMAIN store => store'[q] = store[q]

\* C15: a successful invocation writes exactly one location, the output key
\* of its stage for its run id, and every other location keeps its object;
\* the renderer keeps every grid artifact, the publisher every grid artifact
\* and every intermediate image, whatever the bucket configuration.
C15_Frame ==
    [][last'.exit = "ok" =>
         LET p == OutputOf(last'.TASK_NAME, last'.RUN_ID)
             puts == {i \in DOMAIN last'.ops : last'.ops[i].op = "put"}
         IN  /\ Cardinality(puts) = 1
             /\ \A i \in puts : <<last'.ops[i].Bucket, last'.ops[i].Key>> = p
             /\ p \in DOMAIN store'
             /\ \A q \in (DOMAIN store \cup DOMAIN store') \ {p} : Kept(q)
             /\ last'.TASK_NAME = Some("create_jpeg_image") =>
                   \A q \in DOMAIN store : IsGrid(store[q]) => Kept(q)
             /\ last'.TASK_NAME = Some("upload_image_to_s3") =>
                   /\ \A q \in DOMAIN store : store[q].Metadata = None => Kept(q)
                   /\ \A r \in RunIds : Kept(GridAt(r)) /\ Kept(ImageAt(r))]_vars

\* A publisher succeeded with the output bucket equal to the intermediate
\* bucket while grids and images of both runs are in it.
C15_Witness ==
    /\ Succeeded("upload_image_to_s3")
    /\ config.OUTPUT_S3_BUCKET = None
    /\ \A r \in RunIds : GridAt(r) \in DOMAIN store /\ ImageAt(r) \in DOMAIN store
    /\ FinalAt(last.RUN_ID) \in DOMAIN store

\* ---------------------------------------------------------------- C16
AllOk(ops) == \A i \in DOMAIN ops : ops[i].ok

\* C16: the renderer reads the location the generator writes and the
\* publisher reads the location the renderer writes, for the same run id and
\* in the same bucket; so a renderer run when the grid of its run is stored,
\* and a publisher run when the image of its run is stored, never ends with
\* NoSuchKey, and when no store operation fails it succeeds and its output
\* is in the store.
C16_KeyAgreement ==
    [][LET l == last'
           r == l.RUN_ID
       IN  /\ l.TASK_NAME = Some("generate_poisson_grid") =>
                 /\ Len(l.ops) = 1
                 /\ <<l.ops[1].Bucket, l.ops[1].Key>> = GridAt(r)
           /\ l.TASK_NAME = Some("create_jpeg_image") =>
                 /\ l.ops[1].op = "get"
                 /\ <<l.ops[1].Bucket, l.ops[1].Key>> = GridAt(r)
                 /\ AllOk(l.ops) =>
                       <<l.ops[2].Bucket, l.ops[2].Key>> = ImageAt(r)
                 /\ GridAt(r) \in DOMAIN store =>
                       /\ l.exit # "NoSuchKey"
                       /\ AllOk(l.ops) =>
                             l.exit = "ok" /\ ImageAt(r) \in DOMAIN store'
           /\ l.TASK_NAME = Some("upload_image_to_s3") =>
                 /\ l.ops[1].op = "get"
                 /\ <<l.ops[1].Bucket, l.ops[1].Key>> = ImageAt(r)
                 /\ ImageAt(r) \in DOMAIN store =>
                       /\ l.exit # "NoSuchKey"
                       /\ AllOk(l.ops) =>
                             l.exit = "ok" /\ FinalAt(r) \in DOMAIN store']_vars

\* The three stages of run r2 have run and the final object of r2 is stored,
\* while nothing of run r1 is.
C16_Witness ==
    /\ Succeeded("upload_image_to_s3")
    /\ last.RUN_ID = Some("r2")
    /\ DOMAIN store = {GridAt(Some("r2")), ImageAt(Some("r2")), FinalAt(Some("r2"))}

\* ---------------------------------------------------------------- C17
Count(ops, kind) == Cardinality({i \in DOMAIN ops : ops[i].op = kind})

\* C17: an invocation makes at most one read and at most one write, the
\* read first; the generator makes no read and one write; an operation that
\* failed is the last one of its invocation.
C17_BoundedStoreIO ==
    LET ops == last.ops IN
    /\ Count(ops, "get") <= 1
    /\ Count(ops, "put") <= 1
    /\ Len(ops) = Count(ops, "get") + Count(ops, "put")
    /\ \A i, j \in DOMAIN ops :
          (ops[i].op = "get" /\ ops[j].op = "put") => i < j
    /\ \A i \in DOMAIN ops : ~ops[i].ok => i = Len(ops)
    /\ Ran("generate_poisson_grid") =>
          Count(ops, "get") = 0 /\ Count(ops, "put") = 1
    /\ (Ran("create_jpeg_image") \/ Ran("upload_image_to_s3")) =>
          Count(ops, "get") = 1

\* A renderer's read failed although the grid is stored: it is the only
\* operation of the invocation.
C17_Witness ==
    /\ Ran("create_jpeg_image")
    /\ last.exit = "StoreIOError"
    /\ Len(last.ops) = 1
    /\ GridAt(last.RUN_ID) \in DOMAIN store

\* ---------------------------------------------------------------- C18
\* C18: a key that is in the store stays in the store, and after every
\* step the final object of a run is stored only if the run's image is, and
\* the image only if the run's grid is.
C18_PresenceChain ==
    [][/\ DOMAIN store \subseteq DOMAIN store'
       /\ \A r \in RunIds :
             /\ FinalAt(r) \in DOMAIN store' => ImageAt(r) \in DOMAIN store'
             /\ ImageAt(r) \in DOMAIN store' => GridAt(r) \in DOMAIN store']_vars

\* Grid, image and final object of both runs are stored, in two buckets.
C18_Witness ==
    /\ config.OUTPUT_S3_BUCKET = Some(OtherBucket)
    /\ \A r \in RunIds :
          {GridAt(r), ImageAt(r), FinalAt(r)} \subseteq DOMAIN store

\* ---------------------------------------------------------------- C19
\* Location q holds a new or a different object after the step.
Written(q) ==
    /\ q \in DOMAIN store'
    /\ q \notin DOMAIN store \/ store'[q] # store[q]

\* The images the renderer can produce from the stored grid bytes.
Renderings(bytes) ==
    {JpegEncode([i \in DOMAIN NpLoad(bytes) |-> AsUint8(NpLoad(bytes)[i], cast)],
                bytes.shape) : cast \in UndefinedCast}

\* C19: whenever the final object of a run is written its bytes are those
\* stored at that run's image key at that time, and whenever the image of a
\* run is written it is a rendering of the grid stored at that run's grid key
\* at that time; with the store empty at the start, every final object and
\* every image descends from a grid of its own run.
C19_Provenance ==
    [][\A r \in RunIds :
          /\ Written(FinalAt(r)) =>
                /\ ImageAt(r) \in DOMAIN store
                /\ store'[FinalAt(r)].Body = store[ImageAt(r)].Body
                /\ last'.RUN_ID = r
          /\ Written(ImageAt(r)) =>
                /\ GridAt(r) \in DOMAIN store
                /\ store'[ImageAt(r)].Body \in Renderings(store[GridAt(r)].Body)
                /\ last'.RUN_ID = r
          /\ Written(GridAt(r)) => last'.RUN_ID = r]_vars

\* Run r2 is published although run r1 changed its grid after r2's image was
\* rendered, and the two runs hold different grids and different images.
C19_Witness ==
    /\ Succeeded("upload_image_to_s3")
    /\ last.RUN_ID = Some("r2")
    /\ \A r \in RunIds : {GridAt(r), ImageAt(r)} \subseteq DOMAIN store
    /\ store[GridAt(Some("r1"))] # store[GridAt(Some("r2"))]
    /\ store[ImageAt(Some("r1"))] # store[ImageAt(Some("r2"))]
    /\ store[ImageAt(Some("r1"))].Body \notin Renderings(store[GridAt(Some("r1"))].Body)

====
